---- MODULE Spec2Model ----
(***************************************************************************)
(* Model of wiki_scraper.py: fetch_creature_detail_page_links and          *)
(* fetch_creature_info.                                                    *)
(*                                                                         *)
(* A text (Python str) is a sequence of one-character strings, so that     *)
(* split, strip, lower and the substring test are computed character by    *)
(* character.  The fixed literal pieces of the attribution template are    *)
(* the only multi-character elements; they are never inspected.            *)
(* A parsed page is known through the BeautifulSoup queries the code makes *)
(* on it, each answered when the code asks: the wikitables, the td texts   *)
(* of a table, the first img, the gallerytext entries.                     *)
(***************************************************************************)
EXTENDS Integers, Sequences, FiniteSets, TLC

VARIABLES pc, outcome, error,
          detail_page_url, status_code, tables, table1_cells, table2_cells,
          img, info_dict, i, likes, dislikes, j, image_status, image_content,
          entries, k, detail_page_urls

vars == <<pc, outcome, error, detail_page_url, status_code, tables,
          table1_cells, table2_cells, img, info_dict, i, likes, dislikes, j, image_status, image_content,
          entries, k, detail_page_urls>>

(***************************************************************************)
(* Bounds of the explored inputs.                                          *)
(***************************************************************************)
MaxTables == 2
MaxCells1 == 4
MaxCells2 == 6
MaxLines == 2
MaxEntries == 3

(***************************************************************************)
(* Python values stored in info_dict and in element attributes.            *)
(***************************************************************************)
PyStr(t) == [kind |-> "str", val |-> t]
PyInt(n) == [kind |-> "int", val |-> n]
PyList(l) == [kind |-> "list", val |-> l]
PyNone == [kind |-> "none", val |-> <<>>]

(***************************************************************************)
(* Text literals.                                                          *)
(***************************************************************************)
wiki_base_url == <<"h","t","t","p","s",":","/","/","t","h","e","s","s","u","m",".","m","i","r","a","h","e","z","e",".","o","r","g">>
HrefGlorp == <<"/","w","i","k","i","/","G","l","o","r","p">>
HrefBlobFish == <<"/","w","i","k","i","/","B","l","o","b","_","F","i","s","h">>
TBA == <<"T","B","A">>
LikesWord == <<"l","i","k","e","s">>
DislikesWord == <<"d","i","s","l","i","k","e","s">>
NoneText == <<"N","o","n","e">>
HttpsPrefix == <<"h","t","t","p","s",":">>
DataUrlPrefix == <<"d","a","t","a",":","i","m","a","g","e","/","p","n","g",";","b","a","s","e","6","4",",">>
Whitespace == {" ", "\n", "\t", "\r"}
Digits == <<"0","1","2","3","4","5","6","7","8","9">>
UpperCase == <<"A","B","C","D","E","F","G","H","I","J","K","L","M","N","O","P","Q","R","S","T","U","V","W","X","Y","Z">>
LowerCase == <<"a","b","c","d","e","f","g","h","i","j","k","l","m","n","o","p","q","r","s","t","u","v","w","x","y","z">>
B64Alphabet == <<"A","B","C","D","E","F","G","H","I","J","K","L","M","N","O","P","Q","R","S","T","U","V","W","X","Y","Z","a","b","c","d","e","f","g","h","i","j","k","l","m","n","o","p","q","r","s","t","u","v","w","x","y","z","0","1","2","3","4","5","6","7","8","9","+","/">>

(***************************************************************************)
(* str methods used by the code.                                           *)
(***************************************************************************)
\* sub in s
In(sub, s) ==
    \E p \in 0..(Len(s) - Len(sub)) : SubSeq(s, p + 1, p + Len(sub)) = sub

RECURSIVE LStrip(_)
LStrip(s) ==
    IF s # <<>> /\ Head(s) \in Whitespace THEN LStrip(Tail(s)) ELSE s

RECURSIVE RStrip(_)
RStrip(s) ==
    IF s # <<>> /\ s[Len(s)] \in Whitespace
    THEN RStrip(SubSeq(s, 1, Len(s) - 1))
    ELSE s

\* s.strip()
strip(s) == RStrip(LStrip(s))

\* s.split(sep) for a one-character separator: always at least one segment
RECURSIVE split(_, _)
split(s, sep) ==
    IF \E p \in 1..Len(s) : s[p] = sep
    THEN LET p == CHOOSE q \in 1..Len(s) :
                      s[q] = sep /\ \A m \in 1..(q - 1) : s[m] # sep
         IN  <<SubSeq(s, 1, p - 1)>> \o split(SubSeq(s, p + 1, Len(s)), sep)
    ELSE <<s>>

LowerChar(c) ==
    IF \E p \in 1..Len(UpperCase) : UpperCase[p] = c
    THEN LowerCase[CHOOSE p \in 1..Len(UpperCase) : UpperCase[p] = c]
    ELSE c

\* s.lower()
lower(s) == [p \in 1..Len(s) |-> LowerChar(s[p])]

\* s.replace(old, new) for one-character old and new
replace(s, old, new) == [p \in 1..Len(s) |-> IF s[p] = old THEN new ELSE s[p]]

\* the text an f-string puts for a value
Format(v) == IF v.kind = "none" THEN NoneText ELSE v.val

(***************************************************************************)
(* int(text): surrounding whitespace is dropped, one optional sign, then   *)
(* digits, single underscores allowed between digits; anything else is a   *)
(* ValueError.                                                             *)
(***************************************************************************)
IsDigit(c) == \E p \in 1..Len(Digits) : Digits[p] = c

DigitVal(c) == (CHOOSE p \in 1..Len(Digits) : Digits[p] = c) - 1

Unsigned(t) ==
    IF t # <<>> /\ Head(t) \in {"+", "-"} THEN Tail(t) ELSE t

IntParses(s) ==
    LET body == Unsigned(strip(s))
    IN  /\ body # <<>>
        /\ IsDigit(body[1])
        /\ IsDigit(body[Len(body)])
        /\ \A p \in 1..Len(body) : IsDigit(body[p]) \/ body[p] = "_"
        /\ \A p \in 1..(Len(body) - 1) : ~(body[p] = "_" /\ body[p + 1] = "_")

RECURSIVE Magnitude(_, _)
Magnitude(body, acc) ==
    IF body = <<>> THEN acc
    ELSE IF Head(body) = "_" THEN Magnitude(Tail(body), acc)
    ELSE Magnitude(Tail(body), 10 * acc + DigitVal(Head(body)))

IntValue(s) ==
    LET t == strip(s)
        m == Magnitude(Unsigned(t), 0)
    IN  IF Head(t) = "-" THEN 0 - m ELSE m

(***************************************************************************)
(* base64.b64encode(bytes).decode("utf-8")                                 *)
(***************************************************************************)
RECURSIVE b64encode(_)
b64encode(b) ==
    IF Len(b) = 0 THEN <<>>
    ELSE IF Len(b) = 1 THEN
        <<B64Alphabet[(b[1] \div 4) + 1],
          B64Alphabet[((b[1] % 4) * 16) + 1], "=", "=">>
    ELSE IF Len(b) = 2 THEN
        <<B64Alphabet[(b[1] \div 4) + 1],
          B64Alphabet[((b[1] % 4) * 16) + (b[2] \div 16) + 1],
          B64Alphabet[((b[2] % 16) * 4) + 1], "=">>
    ELSE
        <<B64Alphabet[(b[1] \div 4) + 1],
          B64Alphabet[((b[1] % 4) * 16) + (b[2] \div 16) + 1],
          B64Alphabet[((b[2] % 16) * 4) + (b[3] \div 64) + 1],
          B64Alphabet[(b[3] % 64) + 1]>>
        \o b64encode(SubSeq(b, 4, Len(b)))

(***************************************************************************)
(* dict assignment d[key] = v                                              *)
(***************************************************************************)
Put(d, key, v) ==
    [x \in (DOMAIN d) \cup {key} |-> IF x = key THEN v ELSE d[x]]

Has(d, key) == key \in DOMAIN d

(***************************************************************************)
(* The attribution f-string: fixed literal pieces around the three         *)
(* interpolated values.                                                    *)
(***************************************************************************)
AttributionHead == "Information on/pictures of the creature(s) are from the <a href=\"https://thessum.miraheze.org/wiki/Main_Page\">The Ssum: Forbidden Lab's Unofficial Miraheze Wiki</a>. Authors of the Wiki article <a href=\""
AttributionHistory == "</a> are <a href=\"https://thessum.miraheze.org/w/index.php?title="
AttributionTail == "&action=history\">The Ssum: Forbidden Lab's Unofficial Miraheze Wiki and contributors</a>. Provided under the licence <a href=\"https://creativecommons.org/licenses/by-sa/4.0/\">Creative Commons Attribution-ShareAlike 4.0 International (CC BY-SA 4.0)</a>."

AttributionText(url) ==
    LET segments == split(url, "/")
        detail_page_name == segments[Len(segments)]
    IN  <<AttributionHead>> \o url \o <<"\">">>
        \o replace(detail_page_name, "_", " ")
        \o <<AttributionHistory>> \o detail_page_name \o <<AttributionTail>>

(***************************************************************************)
(* Inputs: what the transport and the parser can hand to the code.         *)
(***************************************************************************)
\* td texts of table 1, by position (1-based here, 0-based in the code)
Cell1Pool(p) ==
    IF p = 1 THEN {<<"4","2">>, <<" ","-","7","\n">>, <<"1","_","0">>,
                     <<"x"," ","T","B","A">>, <<"4","x">>, <<>>}
    ELSE IF p = 2 THEN {<<"G","l","o","r","p">>, <<"T","B","A">>}
    ELSE IF p = 3 THEN {<<"9">>}
    ELSE IF p = 4 THEN {<<"F","r","i","e","n","d","l","y">>, <<"T","B","A","?">>}
    ELSE {<<"x">>}

RECURSIVE Table1sOfLen(_)
Table1sOfLen(n) ==
    IF n = 0 THEN {<<>>}
    ELSE {Append(s, c) : s \in Table1sOfLen(n - 1), c \in Cell1Pool(n)}

Table1s == UNION {Table1sOfLen(n) : n \in 0..MaxCells1}

\* lines of the compatibility cell
LinePool ==
    { <<"L","i","k","e","s",":"," ","A",","," ","B">>,
      <<"D","i","s","l","i","k","e","s",":"," ","C">>,
      <<"l","i","k","e","s",":","D",":","E">>,
      <<"B","l","o","b">>,
      <<"O","t","h","e","r",":"," ","Z">>,
      <<" ","T","B","A">>,
      <<>> }

RECURSIVE LineSeqs(_)
LineSeqs(n) ==
    IF n = 0 THEN {<<>>}
    ELSE {Append(s, c) : s \in LineSeqs(n - 1), c \in LinePool}

RECURSIVE JoinLines(_)
JoinLines(ls) ==
    IF Len(ls) = 1 THEN ls[1]
    ELSE ls[1] \o <<"\n">> \o JoinLines(Tail(ls))

CompatTexts ==
    UNION {{JoinLines(ls) : ls \in LineSeqs(n)} : n \in 1..MaxLines}

\* td texts of table 2: the compatibility cell is the 6th
Table2s ==
    UNION {IF n < 6
           THEN {[p \in 1..n |-> <<"c">>]}
           ELSE {[p \in 1..n |-> IF p = 6 THEN t ELSE <<"c">>] : t \in CompatTexts}
           : n \in 0..MaxCells2}

\* the wikitable elements found on a page
TableLists == {[p \in 1..n |-> "table"] : n \in 0..MaxTables}

NoImg == [found |-> FALSE, src |-> PyNone, alt |-> PyNone]

Imgs ==
    { NoImg,
      [found |-> TRUE, src |-> PyStr(<<"/","/","i","/","g",".","p","n","g">>),
       alt |-> PyStr(<<"G","l","o","r","p">>)],
      [found |-> TRUE, src |-> PyNone, alt |-> PyNone] }

StatusCodes == {200, 404, 503}

ImageStatusCodes == {200, 404}

ImageContents == {<<77, 97, 110>>, <<255, 216>>}

Hrefs == {HrefGlorp, HrefBlobFish}

Urls == {wiki_base_url \o HrefBlobFish}

\* a gallerytext entry: its first a element, if any, and that element's href
EntryPool ==
    { [a |-> FALSE, href |-> PyNone],
      [a |-> TRUE, href |-> PyNone],
      [a |-> TRUE, href |-> PyStr(<<>>)],
      [a |-> TRUE, href |-> PyStr(HrefGlorp)],
      [a |-> TRUE, href |-> PyStr(HrefBlobFish)] }

RECURSIVE EntrySeqsOfLen(_)
EntrySeqsOfLen(n) ==
    IF n = 0 THEN {<<>>}
    ELSE {Append(s, c) : s \in EntrySeqsOfLen(n - 1), c \in EntryPool}

EntrySeqs == UNION {EntrySeqsOfLen(n) : n \in 0..MaxEntries}

\* requests refuses a URL without a host before sending anything
HasHost(url) ==
    /\ Len(url) > Len(HttpsPrefix) + 2
    /\ SubSeq(url, Len(HttpsPrefix) + 1, Len(HttpsPrefix) + 2) = <<"/", "/">>

(***************************************************************************)
(* Initial states: one call of fetch_creature_detail_page_links() or of    *)
(* fetch_creature_info(detail_page_url).                                   *)
(***************************************************************************)
Init ==
    /\ outcome = "running"
    /\ error = "none"
    /\ status_code = 0
    /\ tables = <<>>
    /\ table1_cells = <<>>
    /\ table2_cells = <<>>
    /\ img = NoImg
    /\ info_dict = <<>>
    /\ i = 0
    /\ likes = <<>>
    /\ dislikes = <<>>
    /\ j = 0
    /\ image_status = 0
    /\ image_content = <<>>
    /\ entries = <<>>
    /\ k = 0
    /\ detail_page_urls = <<>>
    /\ \/ pc = "fetch_index" /\ detail_page_url = <<>>
       \/ pc = "fetch_detail" /\ detail_page_url \in Urls

Raise(e) ==
    /\ pc' = "done"
    /\ outcome' = "raised"
    /\ error' = e

Return ==
    /\ pc' = "done"
    /\ outcome' = "returned"
    /\ error' = error

Goto(label) ==
    /\ pc' = label
    /\ UNCHANGED <<outcome, error>>

(***************************************************************************)
(* fetch_creature_detail_page_links                                        *)
(***************************************************************************)
\* href is truthy
Truthy(v) == v.kind = "str" /\ v.val # <<>>

\* requests.get of the index page, find_all("div", class_="gallerytext")
FetchIndexPage ==
    /\ pc = "fetch_index"
    /\ \/ /\ Raise("RequestException")
          /\ UNCHANGED <<entries, k, detail_page_urls>>
       \/ /\ entries' \in EntrySeqs
          /\ detail_page_urls' = <<>>
          /\ k' = 0
          /\ Goto("links_loop")
    /\ UNCHANGED <<detail_page_url, status_code, tables, table1_cells,
                   table2_cells, img, info_dict, i,
                   likes, dislikes, j, image_status, image_content>>

\* one iteration of the loop over gallerytext_elements
LinksEntry ==
    /\ pc = "links_loop"
    /\ k < Len(entries)
    /\ LET a == entries[k + 1]
       IN  IF ~a.a
           THEN /\ Raise("AttributeError")
                /\ UNCHANGED <<k, detail_page_urls>>
           ELSE /\ detail_page_urls' =
                      IF Truthy(a.href)
                      THEN Append(detail_page_urls, wiki_base_url \o a.href.val)
                      ELSE detail_page_urls
                /\ k' = k + 1
                /\ Goto("links_loop")
    /\ UNCHANGED <<detail_page_url, status_code, tables, table1_cells,
                   table2_cells, img, info_dict, i,
                   likes, dislikes, j, image_status, image_content, entries>>

LinksReturn ==
    /\ pc = "links_loop"
    /\ k = Len(entries)
    /\ Return
    /\ UNCHANGED <<detail_page_url, status_code, tables, table1_cells,
                   table2_cells, img, info_dict, i,
                   likes, dislikes, j, image_status, image_content, entries,
                   k, detail_page_urls>>

(***************************************************************************)
(* fetch_creature_info                                                     *)
(***************************************************************************)
\* requests.get of the detail page, the parse, the check for a table and the
\* cells of table 1; a body served with a non-success status has no wikitable
FetchDetailPage ==
    /\ pc = "fetch_detail"
    /\ \/ /\ Raise("RequestException")
          /\ UNCHANGED <<status_code, tables, table1_cells, info_dict>>
       \/ /\ \/ /\ status_code' = 200
                /\ tables' \in TableLists
             \/ /\ status_code' \in StatusCodes \ {200}
                /\ tables' = <<>>
          /\ info_dict' = [x \in {"wiki_url"} |-> PyStr(detail_page_url)]
          /\ IF Len(tables') < 1
             THEN Return /\ UNCHANGED table1_cells
             ELSE Goto("table1") /\ table1_cells' \in Table1s
    /\ UNCHANGED <<detail_page_url, table2_cells, img, i, likes, dislikes, j,
                   image_status, image_content, entries, k, detail_page_urls>>

CellUpdateShifted(info, idx, text) ==
    IF In(TBA, text) THEN info
    ELSE IF idx = 0 THEN
        Put(info, "number",
            IF IntParses(text) THEN PyInt(IntValue(text)) ELSE PyStr(text))
    ELSE IF idx = 1 THEN Put(info, "name", PyStr(text))
    ELSE IF idx = 2 THEN Put(info, "personality", PyStr(text))
    ELSE info

\* the body of the loop over table1_cells
CellUpdate(info, idx, text) ==
    IF In(TBA, text) THEN info
    ELSE IF idx = 0 THEN
        Put(info, "number",
            IF IntParses(text) THEN PyInt(IntValue(text)) ELSE PyStr(text))
    ELSE IF idx = 1 THEN Put(info, "name", PyStr(text))
    ELSE IF idx = 3 THEN Put(info, "personality", PyStr(text))
    ELSE info

Table1Cell ==
    /\ pc = "table1"
    /\ i < Len(table1_cells)
    /\ info_dict' = CellUpdate(info_dict, i, table1_cells[i + 1])
    /\ i' = i + 1
    /\ Goto("table1")
    /\ UNCHANGED <<detail_page_url, status_code, tables, table1_cells,
                   table2_cells, img, likes, dislikes, j, image_status, image_content, entries, k,
                   detail_page_urls>>

Table2TooShortBySeven(cells) == Len(cells) < 7

\* len(table2_cells) < 4
Table2TooShort(cells) == Len(cells) < 4

\* compatibility_cell.text.strip() != "TBA"
NotExactlyTBA(text) == strip(text) # TBA

\* from the end of the table 1 loop to the head of the compatibility loop
ReadTable2 ==
    /\ pc = "table1"
    /\ i = Len(table1_cells)
    /\ IF Len(tables) < 2
       THEN Return /\ UNCHANGED <<likes, dislikes, j, table2_cells>>
       ELSE /\ likes' = <<>>
            /\ dislikes' = <<>>
            /\ j' = 0
            /\ table2_cells' \in Table2s
            /\ IF Table2TooShort(table2_cells') THEN Return
               ELSE IF Len(table2_cells') < 6 THEN Raise("IndexError")
               ELSE IF NotExactlyTBA(table2_cells'[6]) THEN Goto("compat")
               ELSE Goto("set_likes")
    /\ UNCHANGED <<detail_page_url, status_code, tables, table1_cells, img,
                   info_dict, i, image_status, image_content, entries, k,
                   detail_page_urls>>

compatibility_lines == split(table2_cells[6], "\n")

LikesOfExclusive(key, creatures) ==
    IF In(LikesWord, lower(key)) /\ ~In(DislikesWord, lower(key))
    THEN creatures
    ELSE <<>>

\* creatures if "likes" in key.lower() else []
LikesOf(key, creatures) ==
    IF In(LikesWord, lower(key)) THEN creatures ELSE <<>>

\* creatures if "dislikes" in key.lower() else []
DislikesOf(key, creatures) ==
    IF In(DislikesWord, lower(key)) THEN creatures ELSE <<>>

\* [c.strip() for c in values.split(",")]
Creatures(values) ==
    LET names == split(values, ",")
    IN  [p \in 1..Len(names) |-> strip(names[p])]

\* s[0:2]
FirstTwo(segments) ==
    SubSeq(segments, 1, IF Len(segments) < 2 THEN Len(segments) ELSE 2)

\* one iteration of the loop over the lines of the compatibility cell
CompatLine ==
    /\ pc = "compat"
    /\ j < Len(compatibility_lines)
    /\ LET compatibility_info == compatibility_lines[j + 1]
           unpacked == FirstTwo(split(compatibility_info, ":"))
       IN  IF compatibility_info # <<>> /\ ~In(TBA, compatibility_info)
           THEN IF Len(unpacked) # 2
                THEN /\ Raise("ValueError")
                     /\ UNCHANGED <<likes, dislikes, j>>
                ELSE /\ likes' = likes \o LikesOf(unpacked[1], Creatures(unpacked[2]))
                     /\ dislikes' = dislikes \o DislikesOf(unpacked[1], Creatures(unpacked[2]))
                     /\ j' = j + 1
                     /\ Goto("compat")
           ELSE /\ j' = j + 1
                /\ Goto("compat")
                /\ UNCHANGED <<likes, dislikes>>
    /\ UNCHANGED <<detail_page_url, status_code, tables, table1_cells,
                   table2_cells, img, info_dict, i,
                   image_status, image_content, entries, k, detail_page_urls>>

\* info_dict["likes"], info_dict["dislikes"], soup.find("img") and the
\* two image keys
SetLikes ==
    /\ \/ pc = "set_likes"
       \/ pc = "compat" /\ j = Len(compatibility_lines)
    /\ img' \in Imgs
    /\ LET withLists == Put(Put(info_dict, "likes", PyList(likes)),
                            "dislikes", PyList(dislikes))
       IN  IF img'.found
           THEN /\ info_dict' =
                      Put(Put(withLists, "image_url",
                              PyStr(HttpsPrefix \o Format(img'.src))),
                          "image_alt", img'.alt)
                /\ Goto("fetch_image")
           ELSE /\ info_dict' = withLists
                /\ Goto("attribution")
    /\ UNCHANGED <<detail_page_url, status_code, tables, table1_cells,
                   table2_cells, i, likes, dislikes, j, image_status,
                   image_content, entries, k, detail_page_urls>>

\* requests.get of the image and the data URL
FetchImage ==
    /\ pc = "fetch_image"
    /\ \/ /\ Raise("RequestException")
          /\ UNCHANGED <<image_status, image_content, info_dict>>
       \/ /\ HasHost(info_dict["image_url"].val)
          /\ image_status' \in ImageStatusCodes
          /\ IF image_status' = 200
             THEN /\ image_content' \in ImageContents
                  /\ info_dict' = Put(info_dict, "image_url",
                                      PyStr(DataUrlPrefix \o b64encode(image_content')))
             ELSE UNCHANGED <<image_content, info_dict>>
          /\ Goto("attribution")
    /\ UNCHANGED <<detail_page_url, status_code, tables, table1_cells,
                   table2_cells, img, i, likes,
                   dislikes, j, entries, k, detail_page_urls>>

GenerateAttributionIfImage ==
    /\ pc = "attribution"
    /\ info_dict' = IF img.found
                    THEN Put(info_dict, "attribution",
                             PyStr(AttributionText(detail_page_url)))
                    ELSE info_dict
    /\ Return
    /\ UNCHANGED <<detail_page_url, status_code, tables, table1_cells,
                   table2_cells, img, i, likes,
                   dislikes, j, image_status, image_content, entries, k,
                   detail_page_urls>>

\* the attribution text and the final return
GenerateAttribution ==
    /\ pc = "attribution"
    /\ info_dict' = Put(info_dict, "attribution",
                        PyStr(AttributionText(detail_page_url)))
    /\ Return
    /\ UNCHANGED <<detail_page_url, status_code, tables, table1_cells,
                   table2_cells, img, i, likes,
                   dislikes, j, image_status, image_content, entries, k,
                   detail_page_urls>>

Next ==
    \/ FetchIndexPage
    \/ LinksEntry
    \/ LinksReturn
    \/ FetchDetailPage
    \/ Table1Cell
    \/ ReadTable2
    \/ CompatLine
    \/ SetLikes
    \/ FetchImage
    \/ GenerateAttribution

Spec == Init /\ [][Next]_vars

(***************************************************************************)
(* Properties.                                                             *)
(***************************************************************************)
InfoCall == detail_page_url # <<>>

LinksCall == detail_page_url = <<>>

Returned == pc = "done" /\ outcome = "returned"

InfoReturned == InfoCall /\ Returned

HasTable2 == Len(tables) >= 2

HasCompatibilityCell == HasTable2 /\ Len(table2_cells) >= 6

ExampleCell ==
    <<"L","i","k","e","s",":"," ","A",","," ","B","\n",
      "D","i","s","l","i","k","e","s",":"," ","C">>

\* C1: with at least two wikitables, whatever the number of cells of table 2,
\* no cell index out of range is read; a table 2 too short to hold the
\* compatibility cell (index 5) gives the record built from table 1.
C1_NoOutOfRangeRead ==
    (InfoCall /\ pc = "done" /\ HasTable2 /\ Len(table2_cells) < 6)
        => /\ error # "IndexError"
           /\ outcome = "returned"
           /\ ~Has(info_dict, "likes")
           /\ ~Has(info_dict, "dislikes")

C3_FetchFailurePropagates ==
    (InfoCall /\ status_code # 0 /\ ~(status_code >= 200 /\ status_code < 300))
        => outcome # "returned"

\* C4: parsing the compatibility cell raises no error, whatever the number of
\* colons of its lines, and the record gets likes and dislikes.
C4_NoErrorParsingCompatibility ==
    /\ (InfoCall /\ HasCompatibilityCell) => error # "ValueError"
    /\ (InfoCall /\ HasCompatibilityCell /\ pc \in {"fetch_image", "attribution"})
          => Has(info_dict, "likes") /\ Has(info_dict, "dislikes")

\* the URLs of the entries whose first link carries a non-empty href
RECURSIVE ExpectedLinks(_)
ExpectedLinks(es) ==
    IF es = <<>> THEN <<>>
    ELSE (IF es[1].a /\ es[1].href.kind = "str" /\ es[1].href.val # <<>>
          THEN <<wiki_base_url \o es[1].href.val>>
          ELSE <<>>) \o ExpectedLinks(Tail(es))

\* C5: once the index page is fetched, the link discovery returns exactly the
\* URLs of the entries with a non-empty href, in document order; entries
\* without a link target or without a link element are skipped.
C5_LinksSkipSilently ==
    (LinksCall /\ pc = "done" /\ error # "RequestException")
        => /\ outcome = "returned"
           /\ detail_page_urls = ExpectedLinks(entries)

\* names a line gives to the list selected by word ("likes" or "dislikes")
LineNames(line, word) ==
    IF line = <<>> \/ In(TBA, line) THEN <<>>
    ELSE LET segments == split(line, ":")
         IN  IF In(word, lower(segments[1]))
             THEN LET names == split(segments[2], ",")
                  IN  [p \in 1..Len(names) |-> strip(names[p])]
             ELSE <<>>

RECURSIVE ExpectedNames(_, _)
ExpectedNames(ls, word) ==
    IF ls = <<>> THEN <<>>
    ELSE LineNames(ls[1], word) \o ExpectedNames(Tail(ls), word)

\* C6: for a compatibility cell that is not exactly "TBA", likes and dislikes
\* of the record are the names of the lines in line order, a line giving its
\* names to likes when its lowercased key contains "likes" and to dislikes
\* when it contains "dislikes"; a "Dislikes:" line gives them to both, and
\* "Likes: A, B\nDislikes: C" gives likes = [A, B, C], dislikes = [C].
C6_LikesBuiltLineByLine ==
    (InfoCall /\ Has(info_dict, "likes") /\ strip(table2_cells[6]) # TBA)
        => /\ info_dict["likes"].val =
                 ExpectedNames(split(table2_cells[6], "\n"), LikesWord)
           /\ info_dict["dislikes"].val =
                 ExpectedNames(split(table2_cells[6], "\n"), DislikesWord)
           /\ \A p \in 1..Len(info_dict["dislikes"].val) :
                 \E q \in 1..Len(info_dict["likes"].val) :
                    info_dict["likes"].val[q] = info_dict["dislikes"].val[p]
           /\ table2_cells[6] = ExampleCell
                 => /\ info_dict["likes"].val = << <<"A">>, <<"B">>, <<"C">> >>
                    /\ info_dict["dislikes"].val = << <<"C">> >>

C6_Witness ==
    /\ InfoReturned
    /\ Has(info_dict, "likes")
    /\ table2_cells[6] = ExampleCell
    /\ info_dict["likes"].val = << <<"A">>, <<"B">>, <<"C">> >>

\* C7: a single parsed line of the compatibility cell adds names to at most
\* one of likes and dislikes.
C7_MutuallyExclusive ==
    [][~(Len(likes') > Len(likes) /\ Len(dislikes') > Len(dislikes))]_vars

\* C8: in a returned record likes and dislikes are both present or both
\* absent; absent with fewer than two wikitables or a table 2 too short,
\* present once table 2 is parsed, both empty for a compatibility cell that
\* is "TBA" after trimming; a page without wikitable gives only wiki_url.
C8_LikesDislikesTogether ==
    InfoReturned =>
        /\ Has(info_dict, "likes") <=> Has(info_dict, "dislikes")
        /\ ~HasCompatibilityCell => ~Has(info_dict, "likes")
        /\ HasCompatibilityCell => Has(info_dict, "likes")
        /\ (HasCompatibilityCell /\ strip(table2_cells[6]) = TBA)
              => /\ info_dict["likes"] = PyList(<<>>)
                 /\ info_dict["dislikes"] = PyList(<<>>)
        /\ Len(tables) = 0 => DOMAIN info_dict = {"wiki_url"}

C8_Witness ==
    /\ InfoReturned
    /\ HasCompatibilityCell
    /\ strip(table2_cells[6]) = TBA
    /\ table2_cells[6] # TBA
    /\ info_dict["likes"] = PyList(<<>>)
    /\ info_dict["dislikes"] = PyList(<<>>)

\* the value of a table 1 field read from the cell at a 0-based index
FieldFromCell(key, idx) ==
    IF Len(table1_cells) > idx /\ ~In(TBA, table1_cells[idx + 1])
    THEN /\ Has(info_dict, key)
         /\ info_dict[key].kind = "str"
         /\ info_dict[key].val = table1_cells[idx + 1]
    ELSE ~Has(info_dict, key)

\* C9: after table 1 is read, number, name and personality come from the
\* cells 0, 1 and 3 only; a cell containing "TBA" leaves its field absent;
\* number is the integer when the trimmed text of cell 0 parses ("42" gives
\* 42) and the raw text otherwise; a page with table 1 alone, however short,
\* raises nothing.
C9_Table1ByPosition ==
    (InfoCall /\ Len(tables) >= 1 /\ (pc # "table1" \/ i = Len(table1_cells)))
        => /\ FieldFromCell("name", 1)
           /\ FieldFromCell("personality", 3)
           /\ IF Len(table1_cells) > 0 /\ ~In(TBA, table1_cells[1])
              THEN /\ Has(info_dict, "number")
                   /\ IF IntParses(table1_cells[1])
                      THEN /\ info_dict["number"].kind = "int"
                           /\ info_dict["number"].val = IntValue(table1_cells[1])
                      ELSE /\ info_dict["number"].kind = "str"
                           /\ info_dict["number"].val = table1_cells[1]
                   /\ table1_cells[1] = <<"4","2">> => info_dict["number"] = PyInt(42)
                   /\ table1_cells[1] = <<" ","-","7","\n">> => info_dict["number"] = PyInt(0 - 7)
                   /\ table1_cells[1] = <<"1","_","0">> => info_dict["number"] = PyInt(10)
                   /\ table1_cells[1] = <<"4","x">> => info_dict["number"] = PyStr(<<"4","x">>)
                   /\ table1_cells[1] = <<>> => info_dict["number"] = PyStr(<<>>)
              ELSE ~Has(info_dict, "number")
           /\ DOMAIN info_dict \subseteq
                 {"wiki_url", "number", "name", "personality", "likes",
                  "dislikes", "image_url", "image_alt", "attribution"}
           /\ Len(tables) = 1 => outcome # "raised"

C9_Witness ==
    /\ InfoReturned
    /\ Len(tables) >= 1
    /\ Len(table1_cells) >= 4
    /\ Has(info_dict, "number")
    /\ Has(info_dict, "personality")
    /\ table1_cells[3] = <<"9">>
    /\ info_dict["number"] = PyInt(42)
    /\ Has(info_dict, "name")
    /\ info_dict["personality"] = PyStr(<<"F","r","i","e","n","d","l","y">>)

\* C10: once an img element is found the record is returned whatever the
\* image fetch does: with the data URL when the fetch answers 200, with the
\* plain "https:" + src otherwise, and always with image_alt.
C10_ImageFetchFailureNonFatal ==
    (InfoCall /\ pc = "done" /\ Has(info_dict, "image_url"))
        => /\ outcome = "returned"
           /\ Has(info_dict, "image_alt")
           /\ info_dict["image_url"].val =
                 IF image_status = 200
                 THEN DataUrlPrefix \o b64encode(image_content)
                 ELSE HttpsPrefix \o Format(img.src)

====
